---- MODULE Spec2Model ----
(***************************************************************************)
(* Model of the Home component of frontend/app/routes/home.tsx: the React  *)
(* state it holds, the initial load effect, the two submission handlers    *)
(* (handleChangeRequest, handleUserTextRequest) and the test / apply       *)
(* button handlers, with every awaited collaborator call (~/api) as a      *)
(* suspension point that resolves with a value or rejects.                 *)
(***************************************************************************)
EXTENDS Integers, Sequences, FiniteSets, TLC

VARIABLES
    employees,       \* useState<Employee[]>([])                  home.tsx:56
    schedules,       \* useState<ScheduleWithEmployee[]>([])      home.tsx:57
    rules,           \* useState<Rules | null>(null)              home.tsx:58
    loading,         \* useState(true)                            home.tsx:59
    error,           \* useState<string | null>(null)             home.tsx:60
    changeRequest,   \* useState("")                              home.tsx:61
    changeResponse,  \* useState<ScheduleChangeResponse|null>     home.tsx:62
    requestLoading,  \* useState(false)                           home.tsx:64
    openModal,       \* useState<boolean>(false)                  home.tsx:66
    pc,              \* position of loadData, test and apply (each an async function);
                     \* "rejected": the promise the call returned rejected, and
                     \* nothing handles it (the onClick caller drops the promise)
    session,         \* the submission in flight or last made: its entry point, its
                     \* position, and whether it has called setChangeResponse
    fetched,         \* the entries of the last fetchSchedules result a handler joined
    issued,          \* history: the handlers with a fetchSchedules call pending,
                     \* in the order in which they issued it
    newest,          \* history: what became of the fetchSchedules call issued last
    newestData       \* history: the entries that call resolved with

vars == <<employees, schedules, rules, loading, error, changeRequest,
          changeResponse, requestLoading, openModal, pc, session, fetched,
          issued, newest, newestData>>

\* The history of the fetches is recorded under SpecOrder only; the other
\* specifications leave it as it starts.
order == <<issued, newest, newestData>>

----------------------------------------------------------------------------
(* Bounds of the model.                                                    *)

\* longest request text typed into the textarea
MaxLen == 1
\* longest schedule a fetchSchedules call returns
MaxEntries == 1

----------------------------------------------------------------------------
(* Values.                                                                 *)

\* null and undefined.  A slot that holds strings has the string forms, a slot
\* that holds objects or arrays the record forms, so that values of one slot
\* stay comparable.
Null == "null"
Missing == "undefined"
NullObject == [null |-> TRUE]
Undefined == [undefined |-> TRUE]

\* a JS array: what the code reads of it is its length and its items
JsArray(items) == [length |-> Len(items), items |-> items]

\* JS truthiness of an object-or-undefined value (every object is truthy)
Truthy(v) == v # Undefined /\ v # NullObject

\* characters of a request text: one whitespace, one non-whitespace
Chars == {" ", "a"}
Whitespace == {" "}

RECURSIVE SeqsUpTo(_, _)
SeqsUpTo(S, n) ==
    IF n = 0 THEN {<<>>}
    ELSE LET shorter == SeqsUpTo(S, n - 1)
         IN  shorter \cup {Append(s, x) : s \in {t \in shorter : Len(t) = n - 1}, x \in S}

Texts == SeqsUpTo(Chars, MaxLen)

\* String.prototype.trim: drop leading, then trailing, whitespace
RECURSIVE TrimStart(_)
TrimStart(s) ==
    IF s # <<>> /\ Head(s) \in Whitespace THEN TrimStart(Tail(s)) ELSE s

RECURSIVE TrimEnd(_)
TrimEnd(s) ==
    IF s # <<>> /\ s[Len(s)] \in Whitespace
    THEN TrimEnd(SubSeq(s, 1, Len(s) - 1))
    ELSE s

Trim(s) == TrimEnd(TrimStart(s))

\* IsBlank without the trim
IsBlank_untrimmed(text) == text = <<>>

\* !changeRequest.trim(): the empty string is the only falsy string
IsBlank(text) == Trim(text) = <<>>

\* Employee (the fields the component reads) and the lists fetchEmployees returns
Alice == [name |-> "Alice", employee_number |-> "E1"]
EmployeeLists == {<<Alice>>}

\* Schedule rows and the sequences fetchSchedules returns
Entries == {[date |-> "2024-01-05", first_line_support |-> "E1"],
            [date |-> "2024-01-05", first_line_support |-> "E9"]}
EntrySeqs == SeqsUpTo(Entries, MaxEntries)

RulesValues == {[max_days_per_week |-> 5, preferred_balance |-> 1]}

\* a ScheduleChange item of an analysis
Change == [employee_name |-> "Bob", target_date |-> "2024-01-05",
           suggested_replacement |-> "Carol"]

\* The JSON an analysis call can resolve with.  Nothing between the network
\* and the handler validates it, so every field may be absent.
Types == {"question", "other", "complaint", "schedulechange", Missing}
Recommendations == {"approve", "deny", "discuss", Missing}
ChangesValues == {Undefined, JsArray(<<>>), JsArray(<<Change>>)}
\* A schedulechange payload takes every combination of the two fields; a
\* payload of another (or no) type carries either neither field, as declared,
\* or both, an approved non-empty list.
Payloads ==
    {p \in [type : Types, recommendation : Recommendations, changes : ChangesValues] :
        \/ p.type = "schedulechange"
        \/ p.recommendation = Missing /\ p.changes = Undefined
        \/ p.recommendation = "approve" /\ p.changes = JsArray(<<Change>>)}
Responses == {[analysis |-> p] : p \in Payloads} \cup {[analysis |-> Undefined]}

LoadErrorMsg == "Failed to load data. Please try again later."
ProcessErrorMsg == "Failed to process schedule change request."

----------------------------------------------------------------------------
(* The join of schedule rows with employee names.                          *)

\* employees.find(emp => emp.employee_number === number): the index of the
\* first match, 0 for undefined
RECURSIVE FindFrom(_, _, _)
FindFrom(emps, number, i) ==
    IF i > Len(emps) THEN 0
    ELSE IF emps[i].employee_number = number THEN i
    ELSE FindFrom(emps, number, i + 1)

Find(emps, number) == FindFrom(emps, number, 1)

\* a row built with employee?.name: no sentinel for an unresolved reference
WithName_unnamed(emps, schedule) ==
    LET i == Find(emps, schedule.first_line_support)
    IN  [date |-> schedule.date,
         first_line_support |-> schedule.first_line_support,
         employee_name |-> IF i # 0 THEN emps[i].name ELSE Missing]

\* { ...schedule, employee_name: employee ? employee.name : "Unknown Employee" }
WithName(emps, schedule) ==
    LET i == Find(emps, schedule.first_line_support)
    IN  [date |-> schedule.date,
         first_line_support |-> schedule.first_line_support,
         employee_name |-> IF i # 0 THEN emps[i].name ELSE "Unknown Employee"]

\* a join that hands its rows back in the opposite order
Join_reversed(emps, schedulesData) ==
    [i \in 1..Len(schedulesData) |->
        WithName(emps, schedulesData[Len(schedulesData) + 1 - i])]

\* schedulesData.map(...)
Join(emps, schedulesData) ==
    [i \in 1..Len(schedulesData) |-> WithName(emps, schedulesData[i])]

----------------------------------------------------------------------------
(* The component state as one value, and the two submission handlers as    *)
(* functions of it: what each stretch of a handler between two awaits      *)
(* writes.  State updates made in one stretch are committed together.      *)

State ==
    [employees |-> employees, schedules |-> schedules, rules |-> rules,
     loading |-> loading, error |-> error, changeRequest |-> changeRequest,
     changeResponse |-> changeResponse, requestLoading |-> requestLoading,
     openModal |-> openModal]

Commit(s) ==
    /\ employees' = s.employees
    /\ schedules' = s.schedules
    /\ rules' = s.rules
    /\ loading' = s.loading
    /\ error' = s.error
    /\ changeRequest' = s.changeRequest
    /\ changeResponse' = s.changeResponse
    /\ requestLoading' = s.requestLoading
    /\ openModal' = s.openModal

\* ---- handleChangeRequest (the structured entry point) ----

\* if (!changeRequest.trim()) return;
HCR_rejectsText(s) == IsBlank(s.changeRequest)

\* setRequestLoading(true); setError(null);
HCR_begin(s) == [s EXCEPT !.requestLoading = TRUE, !.error = Null]

\* response.analysis.recommendation, read of an absent analysis: a TypeError
HCR_throws(response) == response.analysis = Undefined

\* HCR_refresh without the test of the length
HCR_refresh_anyLength(response) ==
    /\ response.analysis.recommendation = "approve"
    /\ Truthy(response.analysis.changes)

\* the condition of the refresh
HCR_refresh(response) ==
    /\ response.analysis.recommendation = "approve"
    /\ Truthy(response.analysis.changes)
    /\ response.analysis.changes.length > 0

\* catch: setError(...); finally: setRequestLoading(false)
\* HCR_caught with the reset of the flag left in the try block, not in finally
HCR_caught_stillLoading(s) == [s EXCEPT !.error = ProcessErrorMsg]

HCR_caught(s) == [s EXCEPT !.error = ProcessErrorMsg, !.requestLoading = FALSE]

\* the stretch after processScheduleChange resolved, up to the next await
\* or through finally
HCR_resolved(s, response) ==
    LET shown == [s EXCEPT !.changeResponse = response, !.openModal = TRUE]
    IN  IF HCR_throws(response) THEN HCR_caught(shown)
        ELSE IF HCR_refresh(response) THEN shown
        ELSE [shown EXCEPT !.requestLoading = FALSE]

\* the stretch after fetchSchedules resolved, through finally
HCR_refreshed(s, schedulesData) ==
    [s EXCEPT !.schedules = Join(s.employees, schedulesData),
              !.requestLoading = FALSE]

\* ---- handleUserTextRequest (the freeform entry point) ----

\* if (!changeRequest.trim()) return;
HUTR_rejectsText(s) == IsBlank(s.changeRequest)

\* setRequestLoading(true); setError(null);
HUTR_begin(s) == [s EXCEPT !.requestLoading = TRUE, !.error = Null]

\* response.analysis.recommendation, read of an absent analysis: a TypeError
HUTR_throws(response) == response.analysis = Undefined

\* HUTR_refresh without the test of the recommendation
HUTR_refresh_anyRecommendation(response) ==
    /\ Truthy(response.analysis.changes)
    /\ response.analysis.changes.length > 0

\* HUTR_refresh without the test of the length
HUTR_refresh_anyLength(response) ==
    /\ response.analysis.recommendation = "approve"
    /\ Truthy(response.analysis.changes)

\* the condition of the refresh
HUTR_refresh(response) ==
    /\ response.analysis.recommendation = "approve"
    /\ Truthy(response.analysis.changes)
    /\ response.analysis.changes.length > 0

\* HUTR_caught without the setError
HUTR_caught_silent(s) == [s EXCEPT !.requestLoading = FALSE]

\* HUTR_caught also dropping the response displayed
HUTR_caught_clearing(s) ==
    [s EXCEPT !.error = ProcessErrorMsg, !.requestLoading = FALSE,
              !.changeResponse = NullObject]

\* catch: setError(...); finally: setRequestLoading(false)
HUTR_caught(s) == [s EXCEPT !.error = ProcessErrorMsg, !.requestLoading = FALSE]

\* the stretch after processTextRequest resolved, up to the next await or
\* through finally
HUTR_resolved(s, response) ==
    LET shown == [s EXCEPT !.changeResponse = response]
    IN  IF HUTR_throws(response) THEN HUTR_caught(shown)
        ELSE IF HUTR_refresh(response) THEN shown
        ELSE [shown EXCEPT !.requestLoading = FALSE]

\* HUTR_refreshed appending the joined rows to the rows displayed
HUTR_refreshed_appending(s, schedulesData) ==
    [s EXCEPT !.schedules = s.schedules \o Join(s.employees, schedulesData),
              !.requestLoading = FALSE]

\* the stretch after fetchSchedules resolved, through finally
HUTR_refreshed(s, schedulesData) ==
    [s EXCEPT !.schedules = Join(s.employees, schedulesData),
              !.requestLoading = FALSE]

----------------------------------------------------------------------------
(* Initial state: the state of the first render, the load effect pending.  *)

Init ==
    /\ employees = <<>>
    /\ schedules = <<>>
    /\ rules = NullObject
    /\ loading = TRUE
    /\ error = Null
    /\ changeRequest = <<>>
    /\ changeResponse = NullObject
    /\ requestLoading = FALSE
    /\ openModal = FALSE
    /\ pc = [loadData |-> "fetching", test |-> "idle", apply |-> "idle"]
    /\ session = [entry |-> "none", status |-> "none", stored |-> FALSE]
    /\ fetched = <<>>
    /\ issued = <<"loadData">>
    /\ newest = "pending"
    /\ newestData = <<>>

ui == <<employees, schedules, rules, loading, error, changeRequest,
        changeResponse, requestLoading, openModal>>

\* While loading is true the component renders only the loading screen
\* (home.tsx:273): no textarea, no button, no modal.
Rendered == loading = FALSE

----------------------------------------------------------------------------
(* loadData, the effect run once after the first render.                   *)

\* Promise.all resolved: the three results are committed together
LoadData_Resolved(employeesData, schedulesData, rulesData) ==
    /\ pc.loadData = "fetching"
    /\ employees' = employeesData
    /\ schedules' = Join(employeesData, schedulesData)
    /\ rules' = rulesData
    /\ loading' = FALSE
    /\ fetched' = schedulesData
    /\ pc' = [pc EXCEPT !.loadData = "done"]
    /\ UNCHANGED <<error, changeRequest, changeResponse, requestLoading,
                   openModal, session>>

\* three awaits in a row instead of Promise.all: the employees are committed
\* before a later fetch fails
LoadData_Rejected_partial ==
    /\ pc.loadData = "fetching"
    /\ employees' = <<Alice>>
    /\ error' = LoadErrorMsg
    /\ loading' = FALSE
    /\ pc' = [pc EXCEPT !.loadData = "done"]
    /\ UNCHANGED <<schedules, rules, changeRequest, changeResponse,
                   requestLoading, openModal, session, fetched>>

\* Promise.all rejected (any of the three fetches failed)
LoadData_Rejected ==
    /\ pc.loadData = "fetching"
    /\ error' = LoadErrorMsg
    /\ loading' = FALSE
    /\ pc' = [pc EXCEPT !.loadData = "done"]
    /\ UNCHANGED <<employees, schedules, rules, changeRequest, changeResponse,
                   requestLoading, openModal, session, fetched>>

----------------------------------------------------------------------------
(* The view: typing into the textarea.                                     *)

\* onChange of the textarea, fired when the text changes
SetChangeRequest(text) ==
    /\ Rendered
    /\ text # changeRequest
    /\ changeRequest' = text
    /\ UNCHANGED <<employees, schedules, rules, loading, error, changeResponse,
                   requestLoading, openModal, pc, session, fetched>>

----------------------------------------------------------------------------
(* The submission handlers as processes.  session.status is the position   *)
(* of the handler: submitted = awaiting the analysis call, applying =      *)
(* awaiting fetchSchedules, and analyzed / applied / failed / skipped =    *)
(* returned that way.                                                      *)

\* A call of handleChangeRequest.  The submit button is disabled while requestLoading
\* (home.tsx:485), so no call is made while a submission is in flight; the
\* text is checked by the handler itself.
HCR_Call ==
    /\ Rendered
    /\ requestLoading = FALSE
    /\ IF HCR_rejectsText(State)
       THEN /\ session' = [entry |-> "handleChangeRequest", status |-> "skipped",
                            stored |-> FALSE]
            /\ UNCHANGED ui
       ELSE /\ Commit(HCR_begin(State))
            /\ session' = [entry |-> "handleChangeRequest", status |-> "submitted",
                            stored |-> FALSE]
    /\ UNCHANGED <<pc, fetched>>

\* await processScheduleChange(request) resolved with response
HCR_AnalysisResolved(response) ==
    /\ session.entry = "handleChangeRequest"
    /\ session.status = "submitted"
    /\ Commit(HCR_resolved(State, response))
    /\ session' = [session EXCEPT
                      !.stored = TRUE,
                      !.status = IF HCR_throws(response) THEN "failed"
                                 ELSE IF HCR_refresh(response) THEN "applying"
                                 ELSE "analyzed"]
    /\ UNCHANGED <<pc, fetched>>

\* await processScheduleChange(request) rejected
HCR_AnalysisRejected ==
    /\ session.entry = "handleChangeRequest"
    /\ session.status = "submitted"
    /\ Commit(HCR_caught(State))
    /\ session' = [session EXCEPT !.status = "failed"]
    /\ UNCHANGED <<pc, fetched>>

\* await fetchSchedules(...) resolved with schedulesData
HCR_FetchResolved(schedulesData) ==
    /\ session.entry = "handleChangeRequest"
    /\ session.status = "applying"
    /\ Commit(HCR_refreshed(State, schedulesData))
    /\ fetched' = schedulesData
    /\ session' = [session EXCEPT !.status = "applied"]
    /\ UNCHANGED pc

\* await fetchSchedules(...) rejected
HCR_FetchRejected ==
    /\ session.entry = "handleChangeRequest"
    /\ session.status = "applying"
    /\ Commit(HCR_caught(State))
    /\ session' = [session EXCEPT !.status = "failed"]
    /\ UNCHANGED <<pc, fetched>>

\* A call of handleUserTextRequest.  The submit button is disabled while requestLoading
\* (home.tsx:485), so no call is made while a submission is in flight; the
\* text is checked by the handler itself.
HUTR_Call ==
    /\ Rendered
    /\ requestLoading = FALSE
    /\ IF HUTR_rejectsText(State)
       THEN /\ session' = [entry |-> "handleUserTextRequest", status |-> "skipped",
                            stored |-> FALSE]
            /\ UNCHANGED ui
       ELSE /\ Commit(HUTR_begin(State))
            /\ session' = [entry |-> "handleUserTextRequest", status |-> "submitted",
                            stored |-> FALSE]
    /\ UNCHANGED <<pc, fetched>>

\* await processTextRequest(request) resolved with response
HUTR_AnalysisResolved(response) ==
    /\ session.entry = "handleUserTextRequest"
    /\ session.status = "submitted"
    /\ Commit(HUTR_resolved(State, response))
    /\ session' = [session EXCEPT
                      !.stored = TRUE,
                      !.status = IF HUTR_throws(response) THEN "failed"
                                 ELSE IF HUTR_refresh(response) THEN "applying"
                                 ELSE "analyzed"]
    /\ UNCHANGED <<pc, fetched>>

\* await processTextRequest(request) rejected
HUTR_AnalysisRejected ==
    /\ session.entry = "handleUserTextRequest"
    /\ session.status = "submitted"
    /\ Commit(HUTR_caught(State))
    /\ session' = [session EXCEPT !.status = "failed"]
    /\ UNCHANGED <<pc, fetched>>

\* await fetchSchedules(...) resolved with schedulesData
HUTR_FetchResolved(schedulesData) ==
    /\ session.entry = "handleUserTextRequest"
    /\ session.status = "applying"
    /\ Commit(HUTR_refreshed(State, schedulesData))
    /\ fetched' = schedulesData
    /\ session' = [session EXCEPT !.status = "applied"]
    /\ UNCHANGED pc

\* await fetchSchedules(...) rejected
HUTR_FetchRejected ==
    /\ session.entry = "handleUserTextRequest"
    /\ session.status = "applying"
    /\ Commit(HUTR_caught(State))
    /\ session' = [session EXCEPT !.status = "failed"]
    /\ UNCHANGED <<pc, fetched>>

----------------------------------------------------------------------------
(* The test and apply buttons.  One call of each is followed at a time;    *)
(* the employees a handler joins with are those of the render it was       *)
(* created in, which are the current ones: only loadData sets employees,   *)
(* before the buttons are rendered.                                        *)

\* a click of the "test" button
Test_Click ==
    /\ Rendered
    /\ pc.test \in {"idle", "rejected"}
    /\ pc' = [pc EXCEPT !.test = "getDBChange"]
    /\ UNCHANGED <<ui, session, fetched>>

\* await getDBChange(...) resolved: fetchSchedules is called next
Test_CallResolved ==
    /\ pc.test = "getDBChange"
    /\ pc' = [pc EXCEPT !.test = "fetchSchedules"]
    /\ UNCHANGED <<ui, session, fetched>>

\* await getDBChange(...) rejected: test has no try, its promise rejects
Test_CallRejected ==
    /\ pc.test = "getDBChange"
    /\ pc' = [pc EXCEPT !.test = "rejected"]
    /\ UNCHANGED <<ui, session, fetched>>

\* await fetchSchedules(...) resolved with schedulesData
Test_FetchResolved(schedulesData) ==
    /\ pc.test = "fetchSchedules"
    /\ schedules' = Join(employees, schedulesData)
    /\ fetched' = schedulesData
    /\ pc' = [pc EXCEPT !.test = "idle"]
    /\ UNCHANGED <<employees, rules, loading, error, changeRequest,
                   changeResponse, requestLoading, openModal, session>>

\* await fetchSchedules(...) rejected: the promise of test rejects
Test_FetchRejected ==
    /\ pc.test = "fetchSchedules"
    /\ pc' = [pc EXCEPT !.test = "rejected"]
    /\ UNCHANGED <<ui, session, fetched>>

\* a click of the "apply" button
Apply_Click ==
    /\ Rendered
    /\ pc.apply \in {"idle", "rejected"}
    /\ pc' = [pc EXCEPT !.apply = "updateDBChange"]
    /\ UNCHANGED <<ui, session, fetched>>

\* await updateDBChange(...) resolved: fetchSchedules is called next
Apply_CallResolved ==
    /\ pc.apply = "updateDBChange"
    /\ pc' = [pc EXCEPT !.apply = "fetchSchedules"]
    /\ UNCHANGED <<ui, session, fetched>>

\* await updateDBChange(...) rejected: apply has no try, its promise rejects
Apply_CallRejected ==
    /\ pc.apply = "updateDBChange"
    /\ pc' = [pc EXCEPT !.apply = "rejected"]
    /\ UNCHANGED <<ui, session, fetched>>

\* an apply that drops its result while another refresh is still pending
Apply_FetchResolved_yielding(schedulesData) ==
    /\ pc.apply = "fetchSchedules"
    /\ schedules' = IF pc.test = "fetchSchedules" \/ session.status = "applying"
                    THEN schedules
                    ELSE Join(employees, schedulesData)
    /\ fetched' = schedulesData
    /\ pc' = [pc EXCEPT !.apply = "idle"]
    /\ UNCHANGED <<employees, rules, loading, error, changeRequest,
                   changeResponse, requestLoading, openModal, session>>

\* await fetchSchedules(...) resolved with schedulesData
Apply_FetchResolved(schedulesData) ==
    /\ pc.apply = "fetchSchedules"
    /\ schedules' = Join(employees, schedulesData)
    /\ fetched' = schedulesData
    /\ pc' = [pc EXCEPT !.apply = "idle"]
    /\ UNCHANGED <<employees, rules, loading, error, changeRequest,
                   changeResponse, requestLoading, openModal, session>>

\* await fetchSchedules(...) rejected: the promise of apply rejects
Apply_FetchRejected ==
    /\ pc.apply = "fetchSchedules"
    /\ pc' = [pc EXCEPT !.apply = "rejected"]
    /\ UNCHANGED <<ui, session, fetched>>

----------------------------------------------------------------------------

Next ==
    \/ \E e \in EmployeeLists, sd \in EntrySeqs, r \in RulesValues :
          LoadData_Resolved(e, sd, r) /\ UNCHANGED order
    \/ LoadData_Rejected /\ UNCHANGED order
    \/ \E text \in Texts : SetChangeRequest(text) /\ UNCHANGED order
    \/ HCR_Call /\ UNCHANGED order
    \/ \E response \in Responses : HCR_AnalysisResolved(response) /\ UNCHANGED order
    \/ HCR_AnalysisRejected /\ UNCHANGED order
    \/ \E sd \in EntrySeqs : HCR_FetchResolved(sd) /\ UNCHANGED order
    \/ HCR_FetchRejected /\ UNCHANGED order
    \/ HUTR_Call /\ UNCHANGED order
    \/ \E response \in Responses : HUTR_AnalysisResolved(response) /\ UNCHANGED order
    \/ HUTR_AnalysisRejected /\ UNCHANGED order
    \/ \E sd \in EntrySeqs : HUTR_FetchResolved(sd) /\ UNCHANGED order
    \/ HUTR_FetchRejected /\ UNCHANGED order
    \/ Test_Click /\ UNCHANGED order
    \/ Test_CallResolved /\ UNCHANGED order
    \/ Test_CallRejected /\ UNCHANGED order
    \/ \E sd \in EntrySeqs : Test_FetchResolved(sd) /\ UNCHANGED order
    \/ Test_FetchRejected /\ UNCHANGED order
    \/ Apply_Click /\ UNCHANGED order
    \/ Apply_CallResolved /\ UNCHANGED order
    \/ Apply_CallRejected /\ UNCHANGED order
    \/ \E sd \in EntrySeqs : Apply_FetchResolved(sd) /\ UNCHANGED order
    \/ Apply_FetchRejected /\ UNCHANGED order

Spec == Init /\ [][Next]_vars

----------------------------------------------------------------------------
(* Vocabulary of the properties.                                           *)

InFlight == session.status \in {"submitted", "applying"}

\* the step in which a submission receives its analysis response and goes on
ReceivesResponse ==
    /\ session.status = "submitted"
    /\ session'.status \in {"analyzed", "applying"}

\* a response recommending approval of a non-empty list of changes
ApprovedNonEmpty(response) ==
    /\ response # NullObject
    /\ response.analysis # Undefined
    /\ response.analysis.recommendation = "approve"
    /\ response.analysis.changes # Undefined
    /\ response.analysis.changes.items # <<>>

\* a payload the declared union admits, as far as its type tag and, for a
\* schedulechange, its recommendation go
WellFormed(response) ==
    /\ response.analysis # Undefined
    /\ response.analysis.type \in {"question", "other", "complaint", "schedulechange"}
    /\ response.analysis.type = "schedulechange"
         => response.analysis.recommendation \in {"approve", "deny", "discuss"}

\* a text of whitespace only (the empty text included)
AllWhitespace(text) == \A i \in 1..Len(text) : text[i] \in Whitespace

----------------------------------------------------------------------------
(* C1: after a submission receives a response whose type is question,     *)
(* other or complaint, no schedule fetch is issued and the displayed       *)
(* schedule is unchanged, whatever recommendation and changes it carries.  *)
C1_OnlyScheduleChangeRefreshes ==
    [][(/\ ReceivesResponse
        /\ changeResponse'.analysis.type \in {"question", "other", "complaint"})
       => /\ session'.status = "analyzed"
          /\ schedules' = schedules
          /\ pc' = pc]_vars

(* C2: a schedulechange response whose recommendation is deny or discuss,  *)
(* or approve with an empty list of changes, ends the submission analyzed: *)
(* no schedule fetch is issued, no apply call is made, and employees and   *)
(* the displayed schedule are left as they were.                           *)
C2_NoRefreshUnlessApprovedNonEmpty ==
    [][(/\ ReceivesResponse
        /\ changeResponse'.analysis.type = "schedulechange"
        /\ \/ changeResponse'.analysis.recommendation \in {"deny", "discuss"}
           \/ /\ changeResponse'.analysis.recommendation = "approve"
              /\ changeResponse'.analysis.changes = JsArray(<<>>))
       => /\ session'.status = "analyzed"
          /\ requestLoading' = FALSE
          /\ schedules' = schedules
          /\ employees' = employees
          /\ fetched' = fetched
          /\ pc' = pc]_vars

C2_Witness ==
    /\ session.status = "analyzed"
    /\ changeResponse.analysis =
         [type |-> "schedulechange", recommendation |-> "deny",
          changes |-> JsArray(<<Change>>)]

(* C3 as stated: updateDBChange is invoked only in a session that has      *)
(* received an analysis with recommendation approve and non-empty changes. *)
C3_ApplyOnlyAfterApprovedAnalysis ==
    [][(pc.apply # "updateDBChange" /\ pc'.apply = "updateDBChange")
       => /\ session.status \in {"analyzed", "applying", "applied"}
          /\ ApprovedNonEmpty(changeResponse)]_vars

(* C3 as amended: updateDBChange is invoked only by a click of the apply   *)
(* button, once per click (never again from the same call), whatever the   *)
(* analysis state, and never by a step of a submission; what a submission  *)
(* does once, if and only if the response it received recommends approve   *)
(* with non-empty changes, and only on receiving it, is the schedule fetch.*)
C3_ApplyPerClickFetchPerApproval ==
    [][/\ (session' # session) => (pc' = pc)
       /\ (pc.apply # "updateDBChange" /\ pc'.apply = "updateDBChange")
            => (pc.apply \in {"idle", "rejected"} /\ session' = session)
       /\ (pc.apply = "updateDBChange" /\ pc'.apply # "updateDBChange")
            => pc'.apply \in {"fetchSchedules", "rejected"}
       /\ (session.status # "applying" /\ session'.status = "applying")
            => (session.status = "submitted" /\ ApprovedNonEmpty(changeResponse'))
       /\ ReceivesResponse
            => (session'.status = "applying" <=> ApprovedNonEmpty(changeResponse'))
       /\ (session.status = "applying" /\ session'.status # "applying")
            => session'.status \in {"applied", "failed"}]_vars

C3_Witness ==
    /\ pc.apply = "updateDBChange"
    /\ changeResponse = NullObject
    /\ session.status = "none"

(* C4: the refresh of an approved submission, and of apply, replaces the   *)
(* displayed schedule by the join of the employees with the entries just   *)
(* fetched, the fetch being issued after the analysis response (after      *)
(* updateDBChange resolved, in apply); receiving the response changes no   *)
(* row; the submission ends applied with the loading flag reset; and the   *)
(* displayed schedule is at all times the join of the last fetch.          *)
C4_RefreshIsAFreshJoin ==
    /\ [](schedules = Join(employees, fetched))
    /\ [][/\ (session.status = "applying" /\ session'.status = "applied")
               => /\ schedules' = Join(employees, fetched')
                  /\ requestLoading' = FALSE
                  /\ error' = error
                  /\ changeResponse' = changeResponse
          /\ (session.status = "submitted" /\ session'.status = "applying")
               => (schedules' = schedules /\ fetched' = fetched)
          /\ (pc.apply = "fetchSchedules" /\ pc'.apply = "idle")
               => schedules' = Join(employees, fetched')
          /\ (pc.apply # "fetchSchedules" /\ pc'.apply = "fetchSchedules")
               => pc.apply = "updateDBChange"]_vars

C4_Witness ==
    /\ session.status = "applied"
    /\ session.entry = "handleUserTextRequest"
    /\ employees = <<Alice>>
    /\ Len(schedules) = MaxEntries
    /\ schedules[1].employee_name = "Unknown Employee"

(* C5: a call of either entry point with an empty or whitespace-only text  *)
(* changes no state and starts no collaborator call: the calls that are    *)
(* skipped change nothing, and every call that starts a submission has a   *)
(* text with a non-whitespace character.                                   *)
C5_BlankTextIsANoOp ==
    [][/\ (session' # session /\ session'.status = "skipped")
            => (AllWhitespace(changeRequest) /\ UNCHANGED <<ui, pc, fetched>>)
       /\ (session.status # "submitted" /\ session'.status = "submitted")
            => ~AllWhitespace(changeRequest)]_vars

C5_Witness ==
    /\ session.status = "skipped"
    /\ session.entry = "handleChangeRequest"
    /\ changeRequest # <<>>
    /\ AllWhitespace(changeRequest)

(* C6: a submission that failed, at the analysis call or at the schedule   *)
(* fetch, has recorded the error message and reset the loading flag; the   *)
(* failing step is a step of the handler's catch, which returns normally   *)
(* (it leaves the submission failed, and touches no other call).           *)
C6_SubmissionFailureIsCaught ==
    session.status = "failed"
        => /\ error = ProcessErrorMsg
           /\ requestLoading = FALSE

C6_Witness ==
    /\ session.status = "failed"
    /\ session.entry = "handleChangeRequest"
    /\ ~session.stored
    /\ error = ProcessErrorMsg

(* C7: a failure of updateDBChange, or of the fetch that follows it, is    *)
(* caught inside apply: the promise apply returned never rejects with      *)
(* nothing handling it.                                                    *)
C7_ApplyFailureIsCaught == pc.apply # "rejected"

(* C8 as stated, for a well-formed schedulechange response: a submission   *)
(* that ends failed has not stored its response, so that the error message *)
(* and that response are not displayed together.                           *)
C8_FailedSessionStoresNoResponse ==
    session.status = "failed"
        => ~(/\ session.stored
             /\ WellFormed(changeResponse)
             /\ changeResponse.analysis.type = "schedulechange"
             /\ error # Null)

(* C8 as amended: the stored response changes exactly when an analysis     *)
(* call resolves; a submission whose analysis call is rejected leaves the  *)
(* response stored before it and records the error message; a submission  *)
(* that fails after its analysis call resolved keeps the response it       *)
(* stored, which is then displayed together with the error message.        *)
C8_ResponseStoredWhenAnalysisResolves ==
    /\ [](session.stored => changeResponse # NullObject)
    /\ [](session.status \in {"analyzed", "applying", "applied"} => session.stored)
    /\ [][/\ (changeResponse' # changeResponse)
               => (session.status = "submitted" /\ session'.stored)
          /\ (session.status = "submitted" /\ session'.status = "failed"
                /\ ~session'.stored)
               => (changeResponse' = changeResponse /\ error' = ProcessErrorMsg)
          /\ (session.status = "applying" /\ session'.status = "failed")
               => /\ session'.stored
                  /\ changeResponse' = changeResponse
                  /\ error' = ProcessErrorMsg]_vars

C8_Witness ==
    /\ session.status = "failed"
    /\ session.stored
    /\ error = ProcessErrorMsg
    /\ ApprovedNonEmpty(changeResponse)

(* C9: a payload whose type is missing or unknown, or a schedulechange     *)
(* payload whose recommendation is missing or unknown, is rejected: no     *)
(* submission that received it ends analyzed with it stored as the         *)
(* response.                                                               *)
C9_MalformedResponseIsRejected ==
    session.status = "analyzed" => WellFormed(changeResponse)

(* C10: the two entry points do the same to employees, schedules, the      *)
(* stored response, the error and the loading flags.  Wherever a call can  *)
(* be made they reject the same texts and begin alike; wherever a          *)
(* submission awaits its analysis they take the same decision to refresh   *)
(* and leave the same state, on every response; wherever it awaits the     *)
(* schedule fetch they leave the same state on every fetched schedule; and *)
(* wherever it awaits either they leave the same state on a failure.       *)
Shared(s) ==
    [employees |-> s.employees, schedules |-> s.schedules, rules |-> s.rules,
     loading |-> s.loading, error |-> s.error,
     changeResponse |-> s.changeResponse, requestLoading |-> s.requestLoading]

C10_EntryPointsAgree ==
    /\ (Rendered /\ ~requestLoading)
         => /\ HCR_rejectsText(State) = HUTR_rejectsText(State)
            /\ Shared(HCR_begin(State)) = Shared(HUTR_begin(State))
    /\ InFlight
         => Shared(HCR_caught(State)) = Shared(HUTR_caught(State))
    /\ session.status = "submitted"
         => \A response \in Responses :
              /\ HCR_throws(response) = HUTR_throws(response)
              /\ ~HCR_throws(response)
                   => HCR_refresh(response) = HUTR_refresh(response)
              /\ Shared(HCR_resolved(State, response))
                   = Shared(HUTR_resolved(State, response))
    /\ session.status = "applying"
         => \A schedulesData \in EntrySeqs :
              Shared(HCR_refreshed(State, schedulesData))
                = Shared(HUTR_refreshed(State, schedulesData))

C10_Witness ==
    /\ session.status = "applied"
    /\ session.entry = "handleChangeRequest"
    /\ openModal
    /\ schedules # <<>>

----------------------------------------------------------------------------
(* The join on its own: the same handlers fed with every employee list and *)
(* every schedule the bounds below admit (employee lists that are empty,   *)
(* that hold two employees under one employee_number, or an employee       *)
(* without a name; entries that reference no employee), and with one       *)
(* analysis, an approved change, so that every join site is reached.       *)

JoinMaxEmployees == 2
JoinMaxEntries == 2

\* a second employee stored under Alice's number, and one with an empty name
Alicia == [name |-> "Alicia", employee_number |-> "E1"]
Nameless == [name |-> "", employee_number |-> "E9"]
JoinEmployeeLists == SeqsUpTo({Alice, Alicia, Nameless}, JoinMaxEmployees)

JoinEntries ==
    {[date |-> "2024-01-05", first_line_support |-> "E1"],
     [date |-> "2024-01-06", first_line_support |-> "E9"]}
JoinEntrySeqs == SeqsUpTo(JoinEntries, JoinMaxEntries)

JoinTexts == {<<"a">>}
JoinResponses ==
    {[analysis |-> [type |-> "schedulechange", recommendation |-> "approve",
                    changes |-> JsArray(<<Change>>)]]}

JoinNext ==
    \/ \E employeesData \in JoinEmployeeLists, schedulesData \in JoinEntrySeqs,
          rulesData \in RulesValues :
          LoadData_Resolved(employeesData, schedulesData, rulesData) /\ UNCHANGED order
    \/ LoadData_Rejected /\ UNCHANGED order
    \/ \E text \in JoinTexts : SetChangeRequest(text) /\ UNCHANGED order
    \/ HCR_Call /\ UNCHANGED order
    \/ \E response \in JoinResponses : HCR_AnalysisResolved(response) /\ UNCHANGED order
    \/ \E sd \in JoinEntrySeqs : HCR_FetchResolved(sd) /\ UNCHANGED order
    \/ HUTR_Call /\ UNCHANGED order
    \/ \E response \in JoinResponses : HUTR_AnalysisResolved(response) /\ UNCHANGED order
    \/ \E sd \in JoinEntrySeqs : HUTR_FetchResolved(sd) /\ UNCHANGED order
    \/ Test_Click /\ UNCHANGED order
    \/ Test_CallResolved /\ UNCHANGED order
    \/ \E sd \in JoinEntrySeqs : Test_FetchResolved(sd) /\ UNCHANGED order
    \/ Apply_Click /\ UNCHANGED order
    \/ Apply_CallResolved /\ UNCHANGED order
    \/ \E sd \in JoinEntrySeqs : Apply_FetchResolved(sd) /\ UNCHANGED order

SpecJoin == Init /\ [][JoinNext]_vars

\* the steps that perform a join, one per join site
JoinsAtLoad == pc.loadData = "fetching" /\ pc'.loadData = "done" /\ error' = Null
JoinsAtSubmit == session.status = "applying" /\ session'.status = "applied"
JoinsAtTest == pc.test = "fetchSchedules" /\ pc'.test = "idle"
JoinsAtApply == pc.apply = "fetchSchedules" /\ pc'.apply = "idle"
Joins == JoinsAtLoad \/ JoinsAtSubmit \/ JoinsAtTest \/ JoinsAtApply

\* the rows are the entries, one for one and in order, each with a name added
RowsFollow(rows, entries) ==
    /\ DOMAIN rows = DOMAIN entries
    /\ \A i \in DOMAIN entries :
          /\ rows[i].date = entries[i].date
          /\ rows[i].first_line_support = entries[i].first_line_support

(* C11: at every join site (initial load, submission refresh, test, apply) *)
(* and for every employee list and every sequence of entries, the rows     *)
(* displayed after the join are one per fetched entry, in the order of the *)
(* entries, each with the date and the first_line_support of its entry.    *)
C11_JoinKeepsEveryEntryInOrder ==
    [][Joins => RowsFollow(schedules', fetched')]_vars

C11_Witness ==
    /\ pc.loadData = "done"
    /\ session.status = "applied"
    /\ Len(schedules) = 2
    /\ schedules[1].first_line_support = "E9"
    /\ schedules[2].first_line_support = "E1"
    /\ Len(employees) = 2

\* the positions of the employees stored under a number
Matches(emps, number) ==
    {k \in DOMAIN emps : emps[k].employee_number = number}

\* the name an entry resolves to: that of the first employee stored under the
\* referenced number, the sentinel when there is none
Resolves(emps, entry, name) ==
    LET matches == Matches(emps, entry.first_line_support)
    IN  IF matches = {}
        THEN name = "Unknown Employee"
        ELSE name = emps[CHOOSE k \in matches : \A j \in matches : k <= j].name

(* C12: at every join site each row's employee_name is the name of the     *)
(* employee whose employee_number equals the entry's first_line_support    *)
(* (the first one in the employee list the join uses), and it is exactly   *)
(* "Unknown Employee" when the list holds no such employee; an unresolved  *)
(* reference yields a row like any other.                                  *)
C12_NameResolvesOrIsUnknown ==
    [][Joins =>
         /\ DOMAIN schedules' = DOMAIN fetched'
         /\ \A i \in DOMAIN fetched' :
               Resolves(employees', fetched'[i], schedules'[i].employee_name)]_vars

C12_Witness ==
    /\ employees = <<Alicia, Alice>>
    /\ pc.apply = "idle"
    /\ Len(schedules) = 2
    /\ schedules[1].employee_name = "Unknown Employee"
    /\ schedules[2].employee_name = "Alicia"

(* C13: in every state reached by loads, submissions, tests and applies,   *)
(* every displayed row has an employee_name that is a defined, non-empty   *)
(* string.                                                                 *)
C13_EveryRowHasAName ==
    \A i \in DOMAIN schedules : schedules[i].employee_name \notin {"", Missing}

----------------------------------------------------------------------------
(* Progress of a submission.  An await of a submission handler ends: the   *)
(* promise of processScheduleChange, processTextRequest or fetchSchedules  *)
(* settles, and the event loop then runs the handler's continuation.       *)

SubmissionSettles ==
    \/ \E response \in Responses : HCR_AnalysisResolved(response) /\ UNCHANGED order
    \/ HCR_AnalysisRejected /\ UNCHANGED order
    \/ \E sd \in EntrySeqs : HCR_FetchResolved(sd) /\ UNCHANGED order
    \/ HCR_FetchRejected /\ UNCHANGED order
    \/ \E response \in Responses : HUTR_AnalysisResolved(response) /\ UNCHANGED order
    \/ HUTR_AnalysisRejected /\ UNCHANGED order
    \/ \E sd \in EntrySeqs : HUTR_FetchResolved(sd) /\ UNCHANGED order
    \/ HUTR_FetchRejected /\ UNCHANGED order

\* The handlers that read or write requestLoading: the load, which renders the
\* form, the textarea and the two submission handlers.  test and apply neither
\* read nor write the flag, the session or the text, and are left out.
LiveNext ==
    \/ \E e \in EmployeeLists, sd \in EntrySeqs, r \in RulesValues :
          LoadData_Resolved(e, sd, r) /\ UNCHANGED order
    \/ LoadData_Rejected /\ UNCHANGED order
    \/ \E text \in Texts : SetChangeRequest(text) /\ UNCHANGED order
    \/ HCR_Call /\ UNCHANGED order
    \/ \E response \in Responses :
          HCR_AnalysisResolved(response) /\ UNCHANGED order
    \/ HCR_AnalysisRejected /\ UNCHANGED order
    \/ \E sd \in EntrySeqs : HCR_FetchResolved(sd) /\ UNCHANGED order
    \/ HCR_FetchRejected /\ UNCHANGED order
    \/ HUTR_Call /\ UNCHANGED order
    \/ \E response \in Responses :
          HUTR_AnalysisResolved(response) /\ UNCHANGED order
    \/ HUTR_AnalysisRejected /\ UNCHANGED order
    \/ \E sd \in EntrySeqs : HUTR_FetchResolved(sd) /\ UNCHANGED order
    \/ HUTR_FetchRejected /\ UNCHANGED order

SpecLive == Init /\ [][LiveNext]_vars /\ WF_vars(SubmissionSettles)

(* C14: from the start of a non-blank submission, through either handler,  *)
(* until it completes, requestLoading is true; it is false again on every  *)
(* completion (analysis without refresh, refresh done, analysis failed,    *)
(* refresh failed); and, every await settling, a flag that is true         *)
(* eventually is false again.                                              *)
C14_FlagFollowsTheSubmission ==
    /\ [](InFlight <=> requestLoading = TRUE)
    /\ [](session.status \in {"analyzed", "applied", "failed"}
            => requestLoading = FALSE)
    /\ (requestLoading = TRUE) ~> (requestLoading = FALSE)

C14_Witness ==
    /\ session.status = "failed"
    /\ session.entry = "handleChangeRequest"
    /\ ApprovedNonEmpty(changeResponse)
    /\ WellFormed(changeResponse)
    /\ requestLoading = FALSE
    /\ error = ProcessErrorMsg

----------------------------------------------------------------------------
\* the step that ends loadData
LoadEnds == pc.loadData = "fetching" /\ pc'.loadData = "done"

(* C15: the initial load is all-or-nothing.  While it is pending the three *)
(* collections hold their initial empty values and loading is true.  It    *)
(* ends either failed, with none of employees, schedules and rules changed *)
(* and the load error message set, or succeeded, with all three set, the   *)
(* schedules being the join of the fetched entries over the freshly        *)
(* fetched employees, and no error; loading is false from then on.         *)
C15_LoadIsAllOrNothing ==
    /\ [](pc.loadData = "fetching"
            => /\ loading = TRUE
               /\ employees = <<>> /\ schedules = <<>> /\ rules = NullObject)
    /\ [](pc.loadData = "done" => loading = FALSE)
    /\ [][LoadEnds =>
            \/ /\ error' = LoadErrorMsg
               /\ employees' = <<>> /\ schedules' = <<>> /\ rules' = NullObject
            \/ /\ error' = Null
               /\ rules' \in RulesValues
               /\ schedules' = Join(employees', fetched')
               /\ Len(schedules') = Len(fetched')]_vars

C15_Witness ==
    /\ pc.loadData = "done"
    /\ session.status = "none"
    /\ error = Null
    /\ pc.test = "idle" /\ pc.apply = "idle"
    /\ employees = <<Alice, Alicia>>
    /\ rules \in RulesValues
    /\ Len(schedules) = 2
    /\ schedules[1].employee_name = "Alice"
    /\ schedules[2].employee_name = "Unknown Employee"

----------------------------------------------------------------------------
(* The order of the fetches.  Every handler that refreshes the schedule    *)
(* calls fetchSchedules and, when the call resolves, displays the join of  *)
(* its result.  SpecOrder records, next to each step, which of the pending *)
(* calls was issued last and what became of it.                            *)

\* the handler's pending call is the one issued last
IsNewest(handler) ==
    /\ newest = "pending"
    /\ issued # <<>>
    /\ issued[Len(issued)] = handler

Without(handler) == SelectSeq(issued, LAMBDA h : h # handler)

\* the handler calls fetchSchedules
Issues(handler) ==
    /\ issued' = Append(issued, handler)
    /\ newest' = "pending"
    /\ newestData' = <<>>

\* the handler's call resolves with schedulesData, which the handler displays
Delivers(handler, schedulesData) ==
    /\ issued' = Without(handler)
    /\ IF IsNewest(handler)
       THEN newest' = "shown" /\ newestData' = schedulesData
       ELSE /\ newest' = IF newest = "shown" THEN "overwritten" ELSE newest
            /\ UNCHANGED newestData

\* the handler's call rejects
Fails(handler) ==
    /\ issued' = Without(handler)
    /\ newest' = IF IsNewest(handler) THEN "rejected" ELSE newest
    /\ UNCHANGED newestData

\* a submission calls fetchSchedules in the step that takes it to applying
SubmissionIssues ==
    IF session'.status = "applying" THEN Issues("submission")
    ELSE UNCHANGED order

OrderNext ==
    \/ \E e \in EmployeeLists, sd \in EntrySeqs, r \in RulesValues :
          LoadData_Resolved(e, sd, r) /\ Delivers("loadData", sd)
    \/ LoadData_Rejected /\ Fails("loadData")
    \/ \E text \in JoinTexts : SetChangeRequest(text) /\ UNCHANGED order
    \/ HCR_Call /\ UNCHANGED order
    \/ \E response \in JoinResponses :
          HCR_AnalysisResolved(response) /\ SubmissionIssues
    \/ HCR_AnalysisRejected /\ UNCHANGED order
    \/ \E sd \in EntrySeqs : HCR_FetchResolved(sd) /\ Delivers("submission", sd)
    \/ HCR_FetchRejected /\ Fails("submission")
    \/ HUTR_Call /\ UNCHANGED order
    \/ \E response \in JoinResponses :
          HUTR_AnalysisResolved(response) /\ SubmissionIssues
    \/ HUTR_AnalysisRejected /\ UNCHANGED order
    \/ \E sd \in EntrySeqs : HUTR_FetchResolved(sd) /\ Delivers("submission", sd)
    \/ HUTR_FetchRejected /\ Fails("submission")
    \/ Test_Click /\ UNCHANGED order
    \/ Test_CallResolved /\ Issues("test")
    \/ Test_CallRejected /\ UNCHANGED order
    \/ \E sd \in EntrySeqs : Test_FetchResolved(sd) /\ Delivers("test", sd)
    \/ Test_FetchRejected /\ Fails("test")
    \/ Apply_Click /\ UNCHANGED order
    \/ Apply_CallResolved /\ Issues("apply")
    \/ Apply_CallRejected /\ UNCHANGED order
    \/ \E sd \in EntrySeqs : Apply_FetchResolved(sd) /\ Delivers("apply", sd)
    \/ Apply_FetchRejected /\ Fails("apply")

SpecOrder == Init /\ [][OrderNext]_vars

\* no handler is between its call and its return
Quiescent ==
    /\ pc.loadData = "done"
    /\ ~InFlight
    /\ pc.test \in {"idle", "rejected"}
    /\ pc.apply \in {"idle", "rejected"}

(* C16 as claimed: once every operation in flight has completed, the       *)
(* schedule displayed is the join of the result of the fetch issued last   *)
(* (when that fetch resolved), never the result of an older fetch that     *)
(* resolved after it.                                                      *)
C16_NewestFetchIsDisplayed ==
    (Quiescent /\ newest \in {"shown", "overwritten"})
        => schedules = Join(employees, newestData)

(* C16 as amended: once every operation in flight has completed, the       *)
(* schedule displayed is the join of the result of the fetch that resolved *)
(* last, whatever the order of issue; it is the result of the fetch issued *)
(* last when no older fetch resolved after that one.                       *)
C16_LastResolvedFetchIsDisplayed ==
    /\ [](Quiescent
            => /\ issued = <<>>
               /\ schedules = Join(employees, fetched)
               /\ newest = "shown" => schedules = Join(employees, newestData))
    /\ [][Joins => schedules' = Join(employees', fetched')]_vars

C16_Witness ==
    /\ Quiescent
    /\ newest = "overwritten"
    /\ schedules # Join(employees, newestData)
    /\ session.status = "applied"
    /\ pc.apply = "idle"

====
